---- MODULE Spec2Model ----
(***************************************************************************)
(* quantgov.corpora.builtins: the per-document metrics registered in       *)
(* `commands`, the corpus sanity check, and the shared lemma cache of      *)
(* ShannonEntropy.                                                         *)
(*                                                                         *)
(* Text is a sequence of one-character strings.  A call's outcome is a     *)
(* record [kind, val]: kind "return" with the returned tuple, "None" for a *)
(* call that falls off the end of the function, "raise" with               *)
(* <<exception, message...>>, and "not called" before the call.            *)
(* Numbers that are floats in the code are fixed-point integers in         *)
(* millionths (Scale).                                                     *)
(***************************************************************************)
EXTENDS Integers, Sequences, FiniteSets, TLC

VARIABLES
    NLTK,       \* module global NLTK: "True", or "None" when the import failed
    textblob,   \* module global textblob: "module", or "None"
    metric,     \* the key of `commands` the run uses
    args,       \* the resolved options of the run
    doc,        \* the document being processed: [index, text]
    ndocs,      \* documents handed to the metric so far
    columns,    \* outcome of get_columns(args)
    result,     \* outcome of process_document(doc, **args)
    lemmas,     \* ShannonEntropy.lemmas: word -> lemma
    df,         \* SanityCheck: the metadata table [columns, rows]
    cutoff,     \* SanityCheck: args['cutoff'] as <<numerator, denominator>>
    stats,      \* outcome of create_basic_statistics
    extremes,   \* outcome of find_extreme_documents
    warning,    \* outcome of raise_warning
    workers     \* concurrent document processors running ShannonEntropy

vars == <<NLTK, textblob, metric, args, doc, ndocs, columns, result, lemmas,
          df, cutoff, stats, extremes, warning, workers>>

None == "None"

-----------------------------------------------------------------------------
(* Bounds of the model *)

MaxTextLen == 3
MaxDocs == 2
MaxRows == 3
NumWorkers == 2

-----------------------------------------------------------------------------
(* Outcomes of a call *)

NotCalled == [kind |-> "not called", val |-> <<>>]
Return(t) == [kind |-> "return", val |-> t]
ReturnNone == [kind |-> "None", val |-> <<>>]
Raise(exc, msg) == [kind |-> "raise", val |-> <<exc>> \o msg]

-----------------------------------------------------------------------------
(* Characters and the str methods the metrics use *)

LowerLetters == <<"a", "b", "c", "d", "e", "f", "g", "h", "i", "j", "k", "l", "m",
                  "n", "o", "p", "q", "r", "s", "t", "u", "v", "w", "x", "y", "z">>
UpperLetters == <<"A", "B", "C", "D", "E", "F", "G", "H", "I", "J", "K", "L", "M",
                  "N", "O", "P", "Q", "R", "S", "T", "U", "V", "W", "X", "Y", "Z">>
Digits == {"0", "1", "2", "3", "4", "5", "6", "7", "8", "9"}

Range(s) == {s[i] : i \in DOMAIN s}

\* \w of the re module
IsWordChar(c) == c \in Range(LowerLetters) \cup Range(UpperLetters) \cup Digits \cup {"_"}

\* whitespace of str.split() and of \s
IsSpace(c) == c \in {" ", "\n", "\t", "\r"}

\* the line boundaries of str.splitlines() that the model's texts can hold
IsLineBreak(c) == c \in {"\n", "\r"}

\* str.lower() of one character
LowerChar(c) ==
    IF c \in Range(UpperLetters)
    THEN LowerLetters[CHOOSE i \in DOMAIN UpperLetters : UpperLetters[i] = c]
    ELSE c

\* str.lower()
lower(s) == [i \in DOMAIN s |-> LowerChar(s[i])]

RECURSIVE SplitFrom(_, _, _)
SplitFrom(s, i, cur) ==
    IF i > Len(s) THEN (IF cur = <<>> THEN <<>> ELSE <<cur>>)
    ELSE IF IsSpace(s[i])
         THEN (IF cur = <<>> THEN <<>> ELSE <<cur>>) \o SplitFrom(s, i + 1, <<>>)
         ELSE SplitFrom(s, i + 1, Append(cur, s[i]))

\* str.split() without arguments: the maximal runs of non-whitespace
split(s) == SplitFrom(s, 1, <<>>)

RECURSIVE SplitLinesFrom(_, _, _)
SplitLinesFrom(s, i, cur) ==
    IF i > Len(s) THEN (IF cur = <<>> THEN <<>> ELSE <<cur>>)
    ELSE IF IsLineBreak(s[i])
         THEN IF s[i] = "\r" /\ i < Len(s) /\ s[i + 1] = "\n"
              THEN <<cur>> \o SplitLinesFrom(s, i + 2, <<>>)
              ELSE <<cur>> \o SplitLinesFrom(s, i + 1, <<>>)
         ELSE SplitLinesFrom(s, i + 1, Append(cur, s[i]))

\* str.splitlines(): a line break ends a line; no empty last line
splitlines(s) == SplitLinesFrom(s, 1, <<>>)

RECURSIVE join(_, _)
\* sep.join(parts)
join(sep, parts) ==
    IF parts = <<>> THEN <<>>
    ELSE IF Len(parts) = 1 THEN parts[1]
    ELSE parts[1] \o sep \o join(sep, Tail(parts))

-----------------------------------------------------------------------------
(* The part of the re module the patterns of this file use.  A pattern    *)
(* \b(alt1|alt2|...)\b is a sequence of alternatives; an alternative is a  *)
(* sequence of elements: a literal character, or the token "\\s+".         *)

\* \b at position pos (between s[pos-1] and s[pos])
AtWordBoundary(s, pos) ==
    LET before == pos > 1 /\ pos - 1 <= Len(s) /\ IsWordChar(s[pos - 1])
        after == pos >= 1 /\ pos <= Len(s) /\ IsWordChar(s[pos])
    IN  before # after

RECURSIVE SkipSpaces(_, _)
SkipSpaces(s, pos) ==
    IF pos <= Len(s) /\ IsSpace(s[pos]) THEN SkipSpaces(s, pos + 1) ELSE pos

RECURSIVE MatchEnd(_, _, _)
\* The position after a match of the elements at pos, or 0.  \s+ takes the
\* whole whitespace run: every \s+ of this file is followed by a letter, so
\* giving characters back never helps.
MatchEnd(s, pos, elems) ==
    IF elems = <<>> THEN pos
    ELSE IF Head(elems) = "\\s+"
         THEN IF pos <= Len(s) /\ IsSpace(s[pos])
              THEN MatchEnd(s, SkipSpaces(s, pos), Tail(elems))
              ELSE 0
         ELSE IF pos <= Len(s) /\ s[pos] = Head(elems)
              THEN MatchEnd(s, pos + 1, Tail(elems))
              ELSE 0

RECURSIVE AltMatchEnd(_, _, _)
\* The alternatives are tried in order; one is kept only if the closing \b
\* holds after it, else the next is tried.
AltMatchEnd(s, pos, alts) ==
    IF alts = <<>> THEN 0
    ELSE LET e == MatchEnd(s, pos, Head(alts))
         IN  IF e # 0 /\ AtWordBoundary(s, e) THEN e
             ELSE AltMatchEnd(s, pos, Tail(alts))

\* r'\b(?P<match>{})\b' at pos: the position after the match, or 0
PatternMatchEnd(s, pos, alts) ==
    IF AtWordBoundary(s, pos) THEN AltMatchEnd(s, pos, alts) ELSE 0

RECURSIVE FindIterFrom(_, _, _)
FindIterFrom(s, pos, alts) ==
    IF pos > Len(s) THEN <<>>
    ELSE LET e == PatternMatchEnd(s, pos, alts)
         IN  IF e = 0 \/ e = pos THEN FindIterFrom(s, pos + 1, alts)
             ELSE <<SubSeq(s, pos, e - 1)>> \o FindIterFrom(s, e, alts)

\* pattern.finditer(s): the matched texts, left to right, non-overlapping.
\* Every alternative of the model is non-empty, so no match is empty.
finditer(s, alts) == FindIterFrom(s, 1, alts)

RECURSIVE WordTokensFrom(_, _, _)
WordTokensFrom(s, i, cur) ==
    IF i > Len(s) THEN (IF cur = <<>> THEN <<>> ELSE <<cur>>)
    ELSE IF IsWordChar(s[i])
         THEN WordTokensFrom(s, i + 1, Append(cur, s[i]))
         ELSE (IF cur = <<>> THEN <<>> ELSE <<cur>>) \o WordTokensFrom(s, i + 1, <<>>)

\* re.compile(r'\b\w+\b').findall(s), the default word_pattern: the maximal
\* runs of word characters
word_pattern_findall(s) == WordTokensFrom(s, 1, <<>>)

\* collections.Counter(items)[x]
Count(items, x) == Cardinality({i \in DOMAIN items : items[i] = x})

RECURSIVE SumSeq(_)
SumSeq(s) == IF s = <<>> THEN 0 ELSE Head(s) + SumSeq(Tail(s))

-----------------------------------------------------------------------------
(* WordCounter *)

WordCounter_get_columns(a) == Return(<<"words">>)

WordCounter_process_document(d) ==
    Return(d.index \o <<Len(word_pattern_findall(d.text))>>)

-----------------------------------------------------------------------------
(* OccurrenceCounter.  Terms are sequences of letters and spaces, for     *)
(* which the regular expression built from a term matches the term        *)
(* itself; the pattern option is its default r'\b(?P<match>{})\b'.         *)

\* get_columns that forgets the total_label column
OccurrenceCounter_get_columns_NoTotal(a) == Return(a.terms)

OccurrenceCounter_get_columns(a) ==
    IF a.total_label # None
    THEN Return(a.terms \o <<a.total_label>>)
    ELSE Return(a.terms)

\* ' '.join(doc.text.split()).lower()
NormalizeText(text) == lower(join(<<" ">>, split(text)))

RECURSIVE InsertByLen(_, _)
\* t goes after every term at least as long as it: the sort is stable
InsertByLen(sorted, t) ==
    IF sorted = <<>> THEN <<t>>
    ELSE IF Len(Head(sorted)) >= Len(t)
         THEN <<Head(sorted)>> \o InsertByLen(Tail(sorted), t)
         ELSE <<t>> \o sorted

RECURSIVE SortByLenDesc(_)
SortByLenDesc(terms) ==
    IF terms = <<>> THEN <<>>
    ELSE InsertByLen(SortByLenDesc(SubSeq(terms, 1, Len(terms) - 1)),
                     terms[Len(terms)])

\* the terms joined in the caller's order, without the sort
terms_sorted_Unsorted(terms) == terms

\* sorted(terms, key=len, reverse=True)
terms_sorted(terms) == SortByLenDesc(terms)

\* collections.Counter(i.groupdict()['match'] for i in finditer(text)):
\* the matched texts; term_counts[t] is Count(term_matches, t)
term_matches(text, terms) == finditer(NormalizeText(text), terms_sorted(terms))

\* tuple(term_counts[i] for i in terms)
term_counts(text, terms) ==
    LET m == term_matches(text, terms)
    IN  [i \in DOMAIN terms |-> Count(m, terms[i])]

\* sum(term_counts.values())
total_count(text, terms) == Len(term_matches(text, terms))

OccurrenceCounter_process_document(d, a) ==
    IF a.total_label # None
    THEN Return(d.index \o term_counts(d.text, a.terms)
                        \o <<total_count(d.text, a.terms)>>)
    ELSE Return(d.index \o term_counts(d.text, a.terms))

-----------------------------------------------------------------------------
(* Arithmetic on floats, as fixed point in millionths *)

Scale == 1000 * 1000

\* a / b of Python: ZeroDivisionError when b is 0
TrueDiv(a, b) ==
    IF b = 0 THEN [ok |-> FALSE, v |-> 0]
    ELSE [ok |-> TRUE, v |-> (a * Scale) \div b]

RECURSIVE Pow10(_)
Pow10(n) == IF n <= 0 THEN 1 ELSE 10 * Pow10(n - 1)

\* round(x, ndigits) for 0 <= ndigits <= 6: to the nearest multiple of
\* 10^-ndigits, a tie going to the even multiple
round(x, ndigits) ==
    LET unit == Pow10(6 - ndigits)
        mag == IF x < 0 THEN -x ELSE x
        q == mag \div unit
        r == mag % unit
        up == 2 * r > unit \/ (2 * r = unit /\ q % 2 = 1)
        m == (IF up THEN q + 1 ELSE q) * unit
    IN  IF x < 0 THEN -m ELSE m

\* -(p * math.log(p, 2)) for the proportions count / len(lemmas) of up to
\* four lemmas
NegPLog2P(p) ==
    CASE p = 1000000 -> 0
      [] p = 500000 -> 500000
      [] p = 333333 -> 528321
      [] p = 666666 -> 389975
      [] p = 250000 -> 500000
      [] p = 750000 -> 311278

-----------------------------------------------------------------------------
(* The optional backends.  NLTK and textblob are outside this file: the    *)
(* lemmatizer and the sentence splitter are stand-ins with the one        *)
(* property the metrics rely on, that they are functions of their input;   *)
(* the sentiment scores of a text are inputs of the run.                   *)

\* textblob.Word(word).lemmatize(): a plural loses its final s
BackendLemmatize(word) ==
    IF Len(word) > 2 /\ word[Len(word)] = "s"
    THEN SubSeq(word, 1, Len(word) - 1)
    ELSE word

RECURSIVE SentencesFrom(_, _, _)
SentencesFrom(s, i, cur) ==
    IF i > Len(s) THEN (IF split(cur) = <<>> THEN <<>> ELSE <<cur>>)
    ELSE IF s[i] = "."
         THEN <<Append(cur, s[i])>> \o SentencesFrom(s, i + 1, <<>>)
         ELSE SentencesFrom(s, i + 1, Append(cur, s[i]))

\* textblob.TextBlob(text).sentences: a sentence ends at a full stop; text
\* that is empty or all whitespace has no sentence
TextBlob_sentences(text) == SentencesFrom(text, 1, <<>>)

\* sentence.words
Sentence_words(sentence) == word_pattern_findall(sentence)

\* a check_nltk that lets the call through whatever NLTK is
check_nltk_Skipped(func, out, cache) == out

\* @check_nltk around a call with outcome out: [res, cache]
check_nltk(func, out, cache) ==
    IF NLTK = None
    THEN [res |-> Raise("RuntimeError", <<"Must install NLTK to use", func>>),
          cache |-> cache]
    ELSE out

\* @check_textblob around a call with outcome out
check_textblob(func, out, cache) ==
    IF textblob = None
    THEN [res |-> Raise("RuntimeError", <<"Must install textblob to use", func>>),
          cache |-> cache]
    ELSE out

-----------------------------------------------------------------------------
(* ShannonEntropy *)

ShannonEntropy_get_columns(a) == Return(<<"shannon_entropy">>)

\* a store that keeps the word itself in place of its lemma
cache_store_Word(cache, word, lemma) ==
    [x \in DOMAIN cache \cup {word} |-> IF x = word THEN word ELSE cache[x]]

\* ShannonEntropy.lemmas[word] = lemma
cache_store(cache, word, lemma) ==
    [x \in DOMAIN cache \cup {word} |-> IF x = word THEN lemma ELSE cache[x]]

\* ShannonEntropy.lemmatize(word) on cache: the lemma and the cache after
lemmatize(word, cache) ==
    IF word \in DOMAIN cache
    THEN [lemma |-> cache[word], cache |-> cache]
    ELSE LET lemma == BackendLemmatize(word)
         IN  [lemma |-> lemma, cache |-> cache_store(cache, word, lemma)]

RECURSIVE LemmatizeAll(_, _)
\* (ShannonEntropy.lemmatize(word) for word in words), in order
LemmatizeAll(words, cache) ==
    IF words = <<>> THEN [lemmas |-> <<>>, cache |-> cache]
    ELSE LET first == lemmatize(Head(words), cache)
             rest == LemmatizeAll(Tail(words), first.cache)
         IN  [lemmas |-> <<first.lemma>> \o rest.lemmas, cache |-> rest.cache]

\* [lemma for lemma in ... if lemma not in stopwords]
RetainedLemmas(ls, stopwords) == SelectSeq(ls, LAMBDA l : l \notin stopwords)

RECURSIVE Distinct(_)
\* the keys of collections.Counter(items), in order of first occurrence
Distinct(items) ==
    IF items = <<>> THEN <<>>
    ELSE LET init == Distinct(SubSeq(items, 1, Len(items) - 1))
             last == items[Len(items)]
         IN  IF last \in Range(init) THEN init ELSE Append(init, last)

\* counts.values()
CounterValues(items) ==
    LET keys == Distinct(items) IN [i \in DOMAIN keys |-> Count(items, keys[i])]

\* the entropy with 1 / len(lemmas) computed once, ahead of the sum
ShannonEntropy_value_Eager(ls, precision) ==
    LET values == CounterValues(ls)
        unit == TrueDiv(1, Len(ls))
    IN  IF ~unit.ok
        THEN Raise("ZeroDivisionError", <<"division by zero">>)
        ELSE Return(<<round(SumSeq([i \in DOMAIN values |->
                                     NegPLog2P(TrueDiv(values[i], Len(ls)).v)]),
                            precision)>>)

\* round(sum(-(count / len(lemmas) * math.log(count / len(lemmas), 2))
\*           for count in counts.values()), int(precision))
\* The division is evaluated once per value of counts, inside the generator.
ShannonEntropy_value(ls, precision) ==
    LET values == CounterValues(ls)
        ps == [i \in DOMAIN values |-> TrueDiv(values[i], Len(ls))]
    IN  IF \E i \in DOMAIN ps : ~ps[i].ok
        THEN Raise("ZeroDivisionError", <<"division by zero">>)
        ELSE Return(<<round(SumSeq([i \in DOMAIN ps |-> NegPLog2P(ps[i].v)]),
                            precision)>>)

\* the body of ShannonEntropy.process_document, given the lemmas it kept
ShannonEntropy_finish(d, ls, precision) ==
    LET v == ShannonEntropy_value(ls, precision)
    IN  IF v.kind = "return" THEN Return(d.index \o v.val) ELSE v

ShannonEntropy_body(d, a, cache) ==
    LET words == word_pattern_findall(d.text)
        all == LemmatizeAll(words, cache)
        ls == RetainedLemmas(all.lemmas, a.stopwords)
    IN  [res |-> ShannonEntropy_finish(d, ls, a.precision), cache |-> all.cache]

ShannonEntropy_process_document(d, a, cache) ==
    check_nltk("ShannonEntropy.process_document",
        check_textblob("ShannonEntropy.process_document",
            ShannonEntropy_body(d, a, cache), cache), cache)

-----------------------------------------------------------------------------
(* ConditionalCounter *)

ConditionalCounter_pattern ==
    << <<"i", "f">>,
       <<"b", "u", "t">>,
       <<"e", "x", "c", "e", "p", "t">>,
       <<"p", "r", "o", "v", "i", "d", "e", "d">>,
       <<"w", "h", "e", "n">>,
       <<"w", "h", "e", "r", "e">>,
       <<"w", "h", "e", "n", "e", "v", "e", "r">>,
       <<"u", "n", "l", "e", "s", "s">>,
       <<"n", "o", "t", "w", "i", "t", "h", "s", "t", "a", "n", "d", "i", "n", "g">>,
       <<"i", "n", "\\s+", "t", "h", "e", "\\s+", "e", "v", "e", "n", "t">>,
       <<"i", "n", "\\s+", "n", "o", "\\s+", "e", "v", "e", "n", "t">> >>

ConditionalCounter_get_columns(a) == Return(<<"conditionals">>)

ConditionalCounter_process_document(d) ==
    Return(d.index \o
        <<Len(finditer(join(<<" ">>, splitlines(d.text)), ConditionalCounter_pattern))>>)

-----------------------------------------------------------------------------
(* SentenceLength *)

SentenceLength_get_columns(a) == Return(<<"sentence_length">>)

SentenceLength_body(d, a) ==
    LET sentences == TextBlob_sentences(d.text)
        nwords == SumSeq([i \in DOMAIN sentences |-> Len(Sentence_words(sentences[i]))])
        mean == TrueDiv(nwords, Len(sentences))
    IN  IF ~mean.ok THEN Raise("ZeroDivisionError", <<"division by zero">>)
        ELSE IF a.precision # 0
             THEN Return(d.index \o <<round(mean.v, a.precision)>>)
             ELSE Return(d.index \o <<mean.v>>)

SentenceLength_process_document(d, a, cache) ==
    check_nltk("SentenceLength.process_document",
        check_textblob("SentenceLength.process_document",
            [res |-> SentenceLength_body(d, a), cache |-> cache], cache), cache)

-----------------------------------------------------------------------------
(* SentimentAnalysis *)

SentimentAnalysis_get_columns(a) ==
    IF a.backend = "textblob"
    THEN Return(<<"sentiment_polarity", "sentiment_subjectivity">>)
    ELSE Raise("NotImplementedError", <<>>)

\* sentiment: what textblob.TextBlob(doc.text) scores, [polarity, subjectivity]
SentimentAnalysis_body(d, a, sentiment) ==
    IF a.backend = "textblob"
    THEN IF a.precision # 0
         THEN Return(d.index \o <<round(sentiment.polarity, a.precision),
                                  round(sentiment.subjectivity, a.precision)>>)
         ELSE Return(d.index \o <<sentiment.polarity, sentiment.subjectivity>>)
    ELSE ReturnNone

SentimentAnalysis_process_document(d, a, sentiment, cache) ==
    check_nltk("SentimentAnalysis.process_document",
        check_textblob("SentimentAnalysis.process_document",
            [res |-> SentimentAnalysis_body(d, a, sentiment), cache |-> cache],
            cache), cache)

-----------------------------------------------------------------------------
(* SanityCheck.  df is [columns, rows]; a row holds one value per column.  *)
(* The cutoff is the rational <<numerator, denominator>>; float(cutoff)    *)
(* and the product with len(df) are exact for the cutoffs of the model.    *)

\* SanityCheck.find_last_idx(df): the 0-based position of column 'words'
find_last_idx(t) ==
    (CHOOSE i \in DOMAIN t.columns :
        /\ t.columns[i] = "words"
        /\ \A j \in 1..(i - 1) : t.columns[j] # "words") - 1

\* df.words
df_words(t) == [i \in DOMAIN t.rows |-> t.rows[i][find_last_idx(t) + 1]]

\* np.max(df.words) and np.min(df.words) of a non-empty column
np_max(ws) == CHOOSE m \in Range(ws) : \A x \in Range(ws) : x <= m
np_min(ws) == CHOOSE m \in Range(ws) : \A x \in Range(ws) : m <= x

\* df[df.words == w]: the rows whose words value is w, in table order
rows_with_words(t, w) == SelectSeq(t.rows, LAMBDA r : r[find_last_idx(t) + 1] = w)

RECURSIVE JoinStr(_, _)
JoinStr(sep, parts) ==
    IF parts = <<>> THEN ""
    ELSE IF Len(parts) = 1 THEN parts[1]
    ELSE parts[1] \o sep \o JoinStr(sep, Tail(parts))

\* '/'.join(str(i) for i in row[0:find_last_idx(df)]) + '.txt'
doc_name(t, row) == JoinStr("/", SubSeq(row, 1, find_last_idx(t))) \o ".txt"

EmptyArray == Raise("ValueError", <<"zero-size array to reduction operation">>)

create_basic_statistics(t) == Return(<<Len(t.rows), SumSeq(df_words(t))>>)

\* len(df[df.words == np.min(df.words)])
min_words_count(t) == Len(rows_with_words(t, np_min(df_words(t))))

find_extreme_documents(t) ==
    IF t.rows = <<>> THEN EmptyArray
    ELSE LET ws == df_words(t)
         IN  Return(<<doc_name(t, rows_with_words(t, np_max(ws))[1]),
                      np_max(ws),
                      doc_name(t, rows_with_words(t, np_min(ws))[1]),
                      np_min(ws),
                      min_words_count(t)>>)

\* raise_warning with >= in place of >
raise_warning_AtLeast(t, c) ==
    IF t.rows = <<>> THEN EmptyArray
    ELSE Return(<<min_words_count(t) * c[2] >= Len(t.rows) * c[1]>>)

\* min_words_count > len(df) * float(args['cutoff'])
raise_warning(t, c) ==
    IF t.rows = <<>> THEN EmptyArray
    ELSE Return(<<min_words_count(t) * c[2] > Len(t.rows) * c[1]>>)

-----------------------------------------------------------------------------
(* The inputs of the model *)

RECURSIVE SeqsUpTo(_, _)
\* the sequences over S of length at most n
SeqsUpTo(S, n) ==
    IF n <= 0 THEN {<<>>}
    ELSE LET shorter == SeqsUpTo(S, n - 1)
         IN  shorter \cup {Append(s, x) : s \in {t \in shorter : Len(t) = n - 1}, x \in S}

\* the keys of `commands` that have a process_document
Metrics == {"count_words", "count_occurrences", "shannon_entropy",
            "count_conditionals", "sentence_length", "sentiment_analysis"}

GatedMetrics == {"shannon_entropy", "sentence_length", "sentiment_analysis"}

TextAlphabet == {"i", "f", "s", " ", "."}

SampleTexts ==
    { <<"i", "f", "s", " ", "i", "f", " ", "i", "s">>,
      <<"i", "f", " ", "i", "f", "s", ".", "\n", "i", "s", " ", "i", "f">>,
      <<"i", "n", " ", "t", "h", "e", "\n", "e", "v", "e", "n", "t", " ", "i",
        "f">> }

Texts == SeqsUpTo(TextAlphabet, MaxTextLen) \cup SampleTexts

Indexes == {<<"f1">>, <<"d1", "f1">>}

Docs == [index : Indexes, text : Texts]

DefaultArgs == [terms |-> <<>>, total_label |-> None, stopwords |-> {},
                precision |-> 2, backend |-> "textblob"]

TermLists == { << <<"i", "f">> >>,
               << <<"i", "f">>, <<"i", "f">> >>,
               << <<"i">>, <<"i", " ", "f">> >> }

StopwordSets == { {}, {<<"i", "f">>, <<"i">>} }

Precisions == {0, 2}

\* the resolved option sets of a metric
ArgSets(m) ==
    CASE m = "count_occurrences" ->
            {[DefaultArgs EXCEPT !.terms = t, !.total_label = l] :
                t \in TermLists, l \in {None, "total"}}
      [] m = "shannon_entropy" ->
            {[DefaultArgs EXCEPT !.stopwords = s, !.precision = p] :
                s \in StopwordSets, p \in Precisions}
      [] m = "sentence_length" ->
            {[DefaultArgs EXCEPT !.precision = p] : p \in Precisions}
      [] m = "sentiment_analysis" ->
            {[DefaultArgs EXCEPT !.backend = b, !.precision = p] :
                b \in {"textblob", "vader"}, p \in Precisions}
      [] OTHER -> {DefaultArgs}

\* the scores textblob can give a text: polarity in [-1, 1], subjectivity in [0, 1]
Sentiments == {[polarity |-> 0, subjectivity |-> 0],
               [polarity |-> -125000, subjectivity |-> 666667]}

EmptyCache == <<>>

-----------------------------------------------------------------------------
(* The metric run: an orchestrator looks a metric up in `commands`, asks  *)
(* its columns and hands it documents one at a time.                       *)

metricVars == <<NLTK, textblob, metric, args, doc, ndocs, columns, result, lemmas>>
sanityVars == <<df, cutoff, stats, extremes, warning>>

NoSanity ==
    /\ df = [columns |-> <<"words">>, rows |-> <<>>]
    /\ cutoff = <<1, 100>>
    /\ stats = NotCalled
    /\ extremes = NotCalled
    /\ warning = NotCalled

NoWorkers == workers = <<>>

NoMetric ==
    /\ NLTK = "True"
    /\ textblob = "module"
    /\ metric = "check_sanity"
    /\ args = DefaultArgs
    /\ doc = [index |-> <<>>, text |-> <<>>]
    /\ ndocs = 0
    /\ columns = NotCalled
    /\ result = NotCalled
    /\ lemmas = EmptyCache

Init ==
    /\ NLTK \in {"True", None}
    /\ textblob \in {"module", None}
    /\ metric \in Metrics
    /\ args \in ArgSets(metric)
    /\ doc \in Docs
    /\ ndocs = 1
    /\ columns = NotCalled
    /\ result = NotCalled
    /\ lemmas = EmptyCache
    /\ NoSanity
    /\ NoWorkers

\* commands[metric].get_columns(args)
get_columns(m, a) ==
    CASE m = "count_words" -> WordCounter_get_columns(a)
      [] m = "count_occurrences" -> OccurrenceCounter_get_columns(a)
      [] m = "shannon_entropy" -> ShannonEntropy_get_columns(a)
      [] m = "count_conditionals" -> ConditionalCounter_get_columns(a)
      [] m = "sentence_length" -> SentenceLength_get_columns(a)
      [] m = "sentiment_analysis" -> SentimentAnalysis_get_columns(a)

GetColumns ==
    /\ columns = NotCalled
    /\ columns' = get_columns(metric, args)
    /\ UNCHANGED <<NLTK, textblob, metric, args, doc, ndocs, result, lemmas>>
    /\ UNCHANGED <<sanityVars, workers>>

CountWords ==
    /\ metric = "count_words"
    /\ result = NotCalled
    /\ result' = WordCounter_process_document(doc)
    /\ UNCHANGED <<NLTK, textblob, metric, args, doc, ndocs, columns, lemmas>>
    /\ UNCHANGED <<sanityVars, workers>>

CountOccurrences ==
    /\ metric = "count_occurrences"
    /\ result = NotCalled
    /\ result' = OccurrenceCounter_process_document(doc, args)
    /\ UNCHANGED <<NLTK, textblob, metric, args, doc, ndocs, columns, lemmas>>
    /\ UNCHANGED <<sanityVars, workers>>

ComputeShannonEntropy ==
    /\ metric = "shannon_entropy"
    /\ result = NotCalled
    /\ LET out == ShannonEntropy_process_document(doc, args, lemmas)
       IN  /\ result' = out.res
           /\ lemmas' = out.cache
    /\ UNCHANGED <<NLTK, textblob, metric, args, doc, ndocs, columns>>
    /\ UNCHANGED <<sanityVars, workers>>

CountConditionals ==
    /\ metric = "count_conditionals"
    /\ result = NotCalled
    /\ result' = ConditionalCounter_process_document(doc)
    /\ UNCHANGED <<NLTK, textblob, metric, args, doc, ndocs, columns, lemmas>>
    /\ UNCHANGED <<sanityVars, workers>>

ComputeSentenceLength ==
    /\ metric = "sentence_length"
    /\ result = NotCalled
    /\ LET out == SentenceLength_process_document(doc, args, lemmas)
       IN  /\ result' = out.res
           /\ lemmas' = out.cache
    /\ UNCHANGED <<NLTK, textblob, metric, args, doc, ndocs, columns>>
    /\ UNCHANGED <<sanityVars, workers>>

AnalyseSentiment ==
    /\ metric = "sentiment_analysis"
    /\ result = NotCalled
    /\ \E sentiment \in Sentiments :
          LET out == SentimentAnalysis_process_document(doc, args, sentiment, lemmas)
          IN  /\ result' = out.res
              /\ lemmas' = out.cache
    /\ UNCHANGED <<NLTK, textblob, metric, args, doc, ndocs, columns>>
    /\ UNCHANGED <<sanityVars, workers>>

\* the orchestrator hands the metric its next document: the index keeps its
\* fields, the text is one of the sample texts or empty
NextDocument ==
    /\ result.kind \in {"return", "None"}
    /\ ndocs < MaxDocs
    /\ doc' \in [index : {doc.index}, text : SampleTexts \cup {<<>>}]
    /\ ndocs' = ndocs + 1
    /\ result' = NotCalled
    /\ UNCHANGED <<NLTK, textblob, metric, args, columns, lemmas>>
    /\ UNCHANGED <<sanityVars, workers>>

Next ==
    \/ GetColumns
    \/ CountWords
    \/ CountOccurrences
    \/ ComputeShannonEntropy
    \/ CountConditionals
    \/ ComputeSentenceLength
    \/ AnalyseSentiment
    \/ NextDocument

Spec == Init /\ [][Next]_vars

-----------------------------------------------------------------------------
(* The occurrence counter on its own, over texts with upper case, runs of *)
(* spaces and terms that contain one another.                              *)

MaxOccTextLen == 4
MaxTerms == 2

OccAlphabet == {"a", "A", " "}

OccTerms == {<<"a">>, <<"A">>, <<"a", "a">>, <<"a", " ", "a">>}

\* "This Notice of Proposed Rulemaking replaces the prior notice."
ExampleText ==
    <<"T", "h", "i", "s", " ", "N", "o", "t", "i", "c", "e", " ", "o", "f",
    " ", "P", "r", "o", "p", "o", "s", "e", "d", " ", "R", "u", "l", "e",
    "m", "a", "k", "i", "n", "g", " ", "r", "e", "p", "l", "a", "c", "e",
    "s", " ", "t", "h", "e", " ", "p", "r", "i", "o", "r", " ", "n", "o",
    "t", "i", "c", "e", ".">>

\* ["notice", "notice of proposed rulemaking"]
ExampleTerms ==
    << <<"n", "o", "t", "i", "c", "e">>,
       <<"n", "o", "t", "i", "c", "e", " ", "o", "f", " ", "p", "r", "o", "p",
       "o", "s", "e", "d", " ", "r", "u", "l", "e", "m", "a", "k", "i", "n",
       "g">> >>

OccTexts == SeqsUpTo(OccAlphabet, MaxOccTextLen) \cup {ExampleText}

OccTermLists == (SeqsUpTo(OccTerms, MaxTerms) \ {<<>>}) \cup {ExampleTerms}

InitOccurrence ==
    /\ NLTK = "True"
    /\ textblob = "module"
    /\ metric = "count_occurrences"
    /\ args \in {[DefaultArgs EXCEPT !.terms = t, !.total_label = l] :
                    t \in OccTermLists, l \in {None, "total"}}
    /\ doc \in [index : {<<"f1">>}, text : OccTexts]
    /\ ndocs = 1
    /\ columns = NotCalled
    /\ result = NotCalled
    /\ lemmas = EmptyCache
    /\ NoSanity
    /\ NoWorkers

NextOccurrence ==
    \/ GetColumns
    \/ CountOccurrences

SpecOccurrence == InitOccurrence /\ [][NextOccurrence]_vars

-----------------------------------------------------------------------------
(* The sanity check of a metadata table *)

WordValues == {0, 1, 100}

Cutoffs == {<<0, 1>>, <<1, 100>>, <<1, 4>>, <<1, 2>>, <<1, 1>>}

TableColumns == {<<"file", "words">>, <<"dir", "file", "words">>}

\* the table with the given columns whose words column holds ws
Table(cols, ws) ==
    [columns |-> cols,
     rows |-> [i \in DOMAIN ws |->
                 IF Len(cols) = 2 THEN <<"f" \o ToString(i), ws[i]>>
                 ELSE <<"d", "f" \o ToString(i), ws[i]>>]]

Tables == {Table(cols, ws) : cols \in TableColumns, ws \in SeqsUpTo(WordValues, MaxRows)}

InitSanity ==
    /\ df \in Tables
    /\ cutoff \in Cutoffs
    /\ stats = NotCalled
    /\ extremes = NotCalled
    /\ warning = NotCalled
    /\ NoMetric
    /\ NoWorkers

CreateBasicStatistics ==
    /\ stats = NotCalled
    /\ stats' = create_basic_statistics(df)
    /\ UNCHANGED <<df, cutoff, extremes, warning, metricVars, workers>>

FindExtremeDocuments ==
    /\ extremes = NotCalled
    /\ extremes' = find_extreme_documents(df)
    /\ UNCHANGED <<df, cutoff, stats, warning, metricVars, workers>>

RaiseWarning ==
    /\ warning = NotCalled
    /\ warning' = raise_warning(df, cutoff)
    /\ UNCHANGED <<df, cutoff, stats, extremes, metricVars, workers>>

NextSanity ==
    \/ CreateBasicStatistics
    \/ FindExtremeDocuments
    \/ RaiseWarning

SpecSanity == InitSanity /\ [][NextSanity]_vars

-----------------------------------------------------------------------------
(* Concurrent document processors running ShannonEntropy.process_document  *)
(* against the shared cache, one statement of lemmatize at a time.         *)

WorkerTexts == { <<"i", "f", "s", " ", "i", "f">>,
                 <<"i", "f", " ", "i", "f", "s">>,
                 <<"i", "s">> }

WorkerIds == 1..NumWorkers

NewWorker(text) ==
    [pc |-> "call", doc |-> [index |-> <<"f1">>, text |-> text],
     words |-> <<>>, i |-> 0, word |-> <<>>, lemma |-> <<>>, ls |-> <<>>,
     res |-> NotCalled]

InitLemma ==
    /\ NLTK \in {"True", None}
    /\ textblob \in {"module", None}
    /\ metric = "shannon_entropy"
    /\ args \in {[DefaultArgs EXCEPT !.stopwords = s] : s \in StopwordSets}
    /\ doc = [index |-> <<>>, text |-> <<>>]
    /\ ndocs = 0
    /\ columns = NotCalled
    /\ result = NotCalled
    /\ lemmas = EmptyCache
    /\ workers \in [WorkerIds -> {NewWorker(t) : t \in WorkerTexts}]
    /\ NoSanity

\* the decorators, then words = word_pattern.findall(doc.text)
WorkerCall(k) ==
    /\ workers[k].pc = "call"
    /\ LET f == "ShannonEntropy.process_document"
           gate == check_nltk(f, check_textblob(f,
                       [res |-> NotCalled, cache |-> lemmas], lemmas), lemmas)
       IN  IF gate.res.kind = "raise"
           THEN workers' = [workers EXCEPT ![k].pc = "done", ![k].res = gate.res]
           ELSE workers' = [workers EXCEPT ![k].pc = "iter",
                               ![k].words = word_pattern_findall(workers[k].doc.text)]
    /\ UNCHANGED <<metricVars, sanityVars>>

\* the generator takes the next word, or the list of lemmas is complete and
\* the entropy is computed and returned
WorkerIter(k) ==
    /\ workers[k].pc = "iter"
    /\ LET wk == workers[k]
       IN  IF wk.i < Len(wk.words)
           THEN workers' = [workers EXCEPT ![k].pc = "check", ![k].i = wk.i + 1,
                               ![k].word = wk.words[wk.i + 1]]
           ELSE workers' = [workers EXCEPT ![k].pc = "done",
                               ![k].res = ShannonEntropy_finish(wk.doc, wk.ls,
                                                                args.precision)]
    /\ UNCHANGED <<metricVars, sanityVars>>

\* if word in ShannonEntropy.lemmas
WorkerCheck(k) ==
    /\ workers[k].pc = "check"
    /\ workers' = [workers EXCEPT ![k].pc =
                      IF workers[k].word \in DOMAIN lemmas THEN "read" ELSE "backend"]
    /\ UNCHANGED <<metricVars, sanityVars>>

\* lemma = ShannonEntropy.lemmas[word]
WorkerRead(k) ==
    /\ workers[k].pc = "read"
    /\ IF workers[k].word \in DOMAIN lemmas
       THEN workers' = [workers EXCEPT ![k].pc = "return",
                           ![k].lemma = lemmas[workers[k].word]]
       ELSE workers' = [workers EXCEPT ![k].pc = "done",
                           ![k].res = Raise("KeyError", <<workers[k].word>>)]
    /\ UNCHANGED <<metricVars, sanityVars>>

\* lemma = textblob.Word(word).lemmatize()
WorkerBackend(k) ==
    /\ workers[k].pc = "backend"
    /\ workers' = [workers EXCEPT ![k].pc = "store",
                      ![k].lemma = BackendLemmatize(workers[k].word)]
    /\ UNCHANGED <<metricVars, sanityVars>>

\* ShannonEntropy.lemmas[word] = lemma
WorkerStore(k) ==
    /\ workers[k].pc = "store"
    /\ lemmas' = cache_store(lemmas, workers[k].word, workers[k].lemma)
    /\ workers' = [workers EXCEPT ![k].pc = "return"]
    /\ UNCHANGED <<NLTK, textblob, metric, args, doc, ndocs, columns, result>>
    /\ UNCHANGED sanityVars

\* return lemma; the caller keeps it if lemma not in stopwords
WorkerReturn(k) ==
    /\ workers[k].pc = "return"
    /\ workers' = [workers EXCEPT ![k].pc = "iter",
                      ![k].ls = IF workers[k].lemma \notin args.stopwords
                                THEN Append(workers[k].ls, workers[k].lemma)
                                ELSE workers[k].ls]
    /\ UNCHANGED <<metricVars, sanityVars>>

NextLemma ==
    \E k \in WorkerIds :
        \/ WorkerCall(k)
        \/ WorkerIter(k)
        \/ WorkerCheck(k)
        \/ WorkerRead(k)
        \/ WorkerBackend(k)
        \/ WorkerStore(k)
        \/ WorkerReturn(k)

SpecLemma == InitLemma /\ [][NextLemma]_vars

-----------------------------------------------------------------------------
(* Properties *)

Called(r) == r.kind # "not called"

\* the values a returned tuple holds after doc.index
ValuesOf(r, d) == SubSeq(r.val, Len(d.index) + 1, Len(r.val))

\* C1: whenever get_columns(args) returned the columns and process_document
\* was called, the call did not return None, and the tuple it returned
\* starts with doc.index and is len(doc.index) + len(columns) long.
C1_TupleMatchesColumns ==
    (columns.kind = "return" /\ Called(result)) =>
        /\ result.kind \in {"return", "raise"}
        /\ result.kind = "return" =>
              /\ Len(result.val) = Len(doc.index) + Len(columns.val)
              /\ SubSeq(result.val, 1, Len(doc.index)) = doc.index

\* C1 witness: the occurrence counter with a total_label has returned its
\* columns and a tuple.
C1_Witness ==
    /\ metric = "count_occurrences"
    /\ args.total_label # None
    /\ columns.kind = "return"
    /\ result.kind = "return"

\* C2: the tuple of the occurrence counter holds, after doc.index, the
\* count of each term in the caller's order and, with a total_label, a last
\* value equal to the sum of the counts before it.
C2_TotalIsSumOfEmittedCounts ==
    (metric = "count_occurrences" /\ result.kind = "return"
        /\ args.total_label # None) =>
        LET vals == ValuesOf(result, doc)
            k == Len(args.terms)
        IN  /\ Len(vals) = k + 1
            /\ \A i \in 1..k :
                  vals[i] = Count(term_matches(doc.text, args.terms), args.terms[i])
            /\ vals[k + 1] = SumSeq(SubSeq(vals, 1, k))

\* term t stands in s at pos as a whole word
WholeWordAt(s, pos, t) ==
    /\ pos + Len(t) - 1 <= Len(s)
    /\ SubSeq(s, pos, pos + Len(t) - 1) = t
    /\ AtWordBoundary(s, pos)
    /\ AtWordBoundary(s, pos + Len(t))

RECURSIVE LongestScan(_, _, _)
\* one pass from pos: where terms stand as whole words the longest of them
\* is counted and the pass goes on after it
LongestScan(s, pos, terms) ==
    IF pos > Len(s) THEN <<>>
    ELSE LET here == {t \in Range(terms) : WholeWordAt(s, pos, t)}
         IN  IF here = {} THEN LongestScan(s, pos + 1, terms)
             ELSE LET t == CHOOSE x \in here : \A y \in here : Len(y) <= Len(x)
                  IN  <<t>> \o LongestScan(s, pos + Len(t), terms)

\* C3: the counts of the occurrence counter are those of one left-to-right
\* pass over the normalized text that, wherever terms match as whole words,
\* counts only the longest and goes on after it; for the notice example the
\* values are (1, 1, 2).
C3_LongestTermCountedOnce ==
    (metric = "count_occurrences" /\ result.kind = "return") =>
        LET scan == LongestScan(NormalizeText(doc.text), 1, args.terms)
            vals == ValuesOf(result, doc)
        IN  /\ \A i \in DOMAIN args.terms : vals[i] = Count(scan, args.terms[i])
            /\ args.total_label # None => vals[Len(args.terms) + 1] = Len(scan)
            /\ (doc.text = ExampleText /\ args.terms = ExampleTerms
                    /\ args.total_label # None) => vals = <<1, 1, 2>>

\* C3 witness: the notice example has been counted, with its total.
C3_Witness ==
    /\ metric = "count_occurrences"
    /\ doc.text = ExampleText
    /\ args.terms = ExampleTerms
    /\ args.total_label = "total"
    /\ result.kind = "return"

\* C4: the counts of the occurrence counter do not depend on the letter
\* case of the terms: they are the counts of the same terms in lower case.
C4_TermCaseIgnored ==
    (metric = "count_occurrences" /\ result.kind = "return") =>
        result = OccurrenceCounter_process_document(doc,
                    [args EXCEPT !.terms = [i \in DOMAIN args.terms |->
                                               lower(args.terms[i])]])

\* C5: with a backend other than 'textblob', get_columns of the sentiment
\* analysis raises and process_document raises too: neither returns.
C5_UnsupportedBackendRaises ==
    (metric = "sentiment_analysis" /\ args.backend # "textblob") =>
        /\ Called(columns) => columns.kind = "raise"
        /\ Called(result) => result.kind = "raise"

\* C6: with NLTK or textblob absent, process_document of the entropy, the
\* sentence length and the sentiment analysis raises a RuntimeError naming
\* a missing backend and the lemma cache stays untouched; the word, term
\* and conditional counters return their tuple all the same.
C6_MissingBackendFailsAtOnce ==
    (NLTK = None \/ textblob = None) =>
        /\ lemmas = EmptyCache
        /\ (metric \in GatedMetrics /\ Called(result)) =>
              /\ result.kind = "raise"
              /\ result.val[1] = "RuntimeError"
              /\ result.val[2] = (IF NLTK = None THEN "Must install NLTK to use"
                                  ELSE "Must install textblob to use")
        /\ (metric \in Metrics \ GatedMetrics /\ Called(result)) =>
              result.kind = "return"

\* C6 witness: the entropy was asked for without NLTK and raised.
C6_Witness ==
    /\ NLTK = None
    /\ metric = "shannon_entropy"
    /\ result.kind = "raise"

\* the words column of the table, read off the last column of each row
WordsColumn == [i \in DOMAIN df.rows |-> df.rows[i][Len(df.columns)]]

\* the rows no row has fewer words than
RowsAtMinimum ==
    {i \in DOMAIN df.rows : \A j \in DOMAIN df.rows : WordsColumn[i] <= WordsColumn[j]}

\* C7: on a non-empty table raise_warning is true exactly when the rows at
\* the minimum words value are more than cutoff * (row count); their number
\* is the min_words_count of find_extreme_documents; words [0, 0, 100] with
\* cutoff 0.5 give min_words 0, min_words_count 2 and a warning.
C7_WarningIffMinimumShareExceedsCutoff ==
    df.rows # <<>> =>
        LET n == Cardinality(RowsAtMinimum)
        IN  /\ Called(warning) =>
                  /\ warning.kind = "return"
                  /\ warning.val[1] = (n * cutoff[2] > Len(df.rows) * cutoff[1])
            /\ Called(extremes) =>
                  /\ extremes.kind = "return"
                  /\ \A i \in RowsAtMinimum : extremes.val[4] = WordsColumn[i]
                  /\ extremes.val[5] = n
            /\ (WordsColumn = <<0, 0, 100>> /\ cutoff = <<1, 2>>) =>
                  /\ Called(warning) => warning = Return(<<TRUE>>)
                  /\ Called(extremes) => extremes.val[4] = 0 /\ extremes.val[5] = 2

\* C7 witness: both reports on the table with words [0, 0, 100], cutoff 0.5.
C7_Witness ==
    /\ df.rows # <<>>
    /\ WordsColumn = <<0, 0, 100>>
    /\ cutoff = <<1, 2>>
    /\ warning = Return(<<TRUE>>)
    /\ extremes.kind = "return"

\* C8: on a document without sentences the sentence length does not end in
\* a ZeroDivisionError.
C8_NoSentencesNoArithmeticFault ==
    (metric = "sentence_length" /\ Called(result)
        /\ TextBlob_sentences(doc.text) = <<>>) =>
        ~(result.kind = "raise" /\ result.val[1] = "ZeroDivisionError")

\* the lemmas of the document that are no stopwords, straight from the backend
BackendRetained(d, a) ==
    LET words == word_pattern_findall(d.text)
    IN  SelectSeq([i \in DOMAIN words |-> BackendLemmatize(words[i])],
                  LAMBDA l : l \notin a.stopwords)

\* C9: with both backends present, the entropy of a document that keeps no
\* lemma (no word, or stopwords only) is returned as 0: no division by the
\* empty lemma count is made and nothing is raised.
C9_EmptyLemmasGiveZero ==
    (metric = "shannon_entropy" /\ NLTK # None /\ textblob # None
        /\ Called(result) /\ BackendRetained(doc, args) = <<>>) =>
        /\ result.kind = "return"
        /\ result.val = doc.index \o <<0>>

\* C9 witness: a document of stopwords only has been processed.
C9_Witness ==
    /\ metric = "shannon_entropy"
    /\ NLTK # None
    /\ textblob # None
    /\ word_pattern_findall(doc.text) # <<>>
    /\ BackendRetained(doc, args) = <<>>
    /\ result.kind = "return"

\* every entry of the cache is the backend's lemma of its word
CacheExact == \A w \in DOMAIN lemmas : lemmas[w] = BackendLemmatize(w)

\* a lemmatize call that has its lemma holds the backend's lemma of its word
LemmaExact ==
    \A k \in DOMAIN workers :
        workers[k].pc \in {"store", "return"} =>
            workers[k].lemma = BackendLemmatize(workers[k].word)

\* a finished call returned what the same call returns alone on an empty cache
ResultAsCold ==
    \A k \in DOMAIN workers :
        workers[k].pc = "done" =>
            workers[k].res = ShannonEntropy_process_document(workers[k].doc, args,
                                                             EmptyCache).res

\* no entry is removed or changed
CacheGrows == \A w \in DOMAIN lemmas : w \in DOMAIN lemmas' /\ lemmas'[w] = lemmas[w]

\* C10: under every interleaving of the processors the cache holds exactly
\* the backend's lemmas, never loses or changes an entry, every lemmatize
\* call gets the backend's lemma, and every process_document returns what it
\* returns on an empty cache.
C10_CacheTransparentAndMonotone ==
    /\ [](CacheExact /\ LemmaExact /\ ResultAsCold)
    /\ [][CacheGrows]_vars

\* C10 witness: two processors have both asked the backend for the same word
\* and are both about to store its lemma.
C10_Witness ==
    \E j, k \in DOMAIN workers :
        /\ j # k
        /\ workers[j].pc = "store"
        /\ workers[k].pc = "store"
        /\ workers[j].word = workers[k].word

====
